---- MODULE Spec2Model ----
(***************************************************************************)
(* Real-time event distribution of the TaskFlow assistant: the             *)
(* TaskObservable hub of lib/observers/TaskObserver.ts (observer registry, *)
(* notify, socket handlers, offline event queue, event emission).          *)
(*                                                                         *)
(* JavaScript runs one task at a time: everything between two awaits is    *)
(* one atomic step.  An async method is therefore one action for the part  *)
(* that runs until its first await, and one action for each resumption.    *)
(* A call suspended at an await is an element of the variable calls.       *)
(***************************************************************************)
EXTENDS Integers, Sequences, FiniteSets, TLC

\* ------------------------------------------------------------------ bounds
MaxEvents == 2      \* events created in one run (published + inbound)
MaxAdds == 2        \* addObserver calls in one run
MaxBacklogEvents == 5   \* events published in one run of SpecBacklog
MaxSendEvents == 3      \* events published in one run of SpecSend
MaxDispatchEvents == 2  \* notify calls in one run of SpecDispatch
MaxDispatchAdds == 3    \* addObserver calls in one run of SpecDispatch
MaxShutdownEvents == 3  \* events published in one run of SpecShutdown
MaxShutdownAdds == 2    \* addObserver calls in one run of SpecShutdown
MaxSilenceMs == 400     \* silence up to which SpecHeartbeat counts time
MaxHeartbeatAdds == 2   \* addObserver calls in one run of SpecHeartbeat
MaxHeartbeatEvents == 1 \* events published in one run of SpecHeartbeat
MaxDrainEvents == 2     \* events published in one run of SpecDrain
MaxDrainAdds == 1       \* addObserver calls in one run of SpecDrain
MaxRouterCalls == 2     \* procedure calls in one run of SpecRouter
MaxBulkLen == 2         \* longest input.taskIds of bulkUpdateStatus

\* ------------------------------------------------------- values of the model
TaskIds == {"t1", "t2"}
LocalUser == "u1"                 \* dependencies.userId of this instance
RemoteUser == "u2"                \* a user of the remote peer
Undefined == "undefined"          \* the JavaScript value undefined
IllTyped == "<number>"            \* a value that is not a string
InvalidDate == -1                 \* new Date(x) for an x that is no date

\* The observers that exist; update() of each behaves in one fixed way:
\* it returns a promise that resolves after some time (an async update),
\* it throws synchronously (an update that is not an async function), or it
\* returns a promise that rejects after some time (an async update).
Observers == {"ok", "thrower", "rejecter"}
Behaviour(o) ==
  CASE o = "ok" -> "returns"
    [] o = "thrower" -> "throws"
    [] o = "rejecter" -> "rejects"

SuppliedIds == {"main"}           \* ids a caller passes to addObserver
GenId(n) == ToString(n)           \* an id minted by generateObserverId

VARIABLES
  observers,    \* Map<string, Observer>: sequence of [id, obs], insertion order
  hasSocket,    \* dependencies.socket was given
  socketUp,     \* the socket itself is connected
  isConnected,  \* this.isConnected
  eventQueue,   \* this.eventQueue
  calls,        \* async calls suspended at their await: [op, ev]
  sent,         \* what socket.emit was called with, in order: [channel, msg]
  delivered,    \* every invocation observer.update(ev), in order: [obs, ev]
  errors,       \* every call of handleError, in order (the error sink)
  outcome,      \* how each publish call ended: n -> pending, ok, rejected
  published,    \* the events the emit* methods built, in call order
  clock,        \* number of events created so far; also the time of new Date()
  nextId,       \* number of addObserver calls so far (ids minted are fresh)
  queuedAtShutdown,  \* history: the queue entries each disconnect() dropped
  now,          \* milliseconds of silence on the socket (SpecHeartbeat)
  callbacks,    \* TaskEventHandler: the callbacks its constructor was given
  invoked,      \* TaskEventHandler: the callback calls of the last update
  tasks,        \* tasks router: the task table behind the repository
  routerCalls,  \* tasks router: procedure calls suspended at an await
  replies       \* tasks router: the outcome of every finished call, in order

\* the fields of the hub
hubVars == <<observers, hasSocket, socketUp, isConnected, eventQueue, calls,
             sent, delivered, errors, outcome, published, clock, nextId>>

\* what the methods of the hub modelled before disconnect() never touch
auxVars == <<queuedAtShutdown, now, callbacks, invoked, tasks, routerCalls,
             replies>>

\* the variables of TaskEventHandler and of the tasks router
restVars == <<callbacks, invoked, tasks, routerCalls, replies>>

vars == <<observers, hasSocket, socketUp, isConnected, eventQueue, calls, sent,
          delivered, errors, outcome, published, clock, nextId,
          queuedAtShutdown, now, callbacks, invoked, tasks, routerCalls,
          replies>>

\* ------------------------------------------------------------ JS conversions
\* Date.prototype.toISOString: the wire carries the time as a string.
ToISOString(t) == ToString(t)

\* the times a run can read from the clock or from a message
Times == 0..(MaxEvents + MaxBacklogEvents)

\* new Date(v) of a wire value: the date an ISO string denotes, Invalid Date
\* for everything else (undefined, a word, ...).
NewDate(v) ==
  IF \E t \in Times : ToString(t) = v
  THEN CHOOSE t \in Times : ToString(t) = v
  ELSE InvalidDate

\* property access data.f: undefined when the object has no such property.
\* data.js says what kind of JavaScript value the handler was called with.
Get(data, f) == IF f \in DOMAIN data THEN data[f] ELSE Undefined

\* payloads (TaskEvent.data is `unknown`)
TaskData(tid) == [kind |-> "task", id |-> tid]
DeletedData(tid) == [kind |-> "taskId", id |-> tid]
NoData == [kind |-> "undefined", id |-> ""]
PresenceData(p) ==
  [kind |-> "presence", id |-> p.userId, isOnline |-> p.isOnline,
   currentTaskId |-> p.currentTaskId, lastSeen |-> p.lastSeen]

\* ------------------------------------------------------------------ registry
MapHas(m, id) == \E i \in 1..Len(m) : m[i].id = id

\* Map.prototype.set: replaces the value of a present key in place, appends
\* a new key at the end.
MapSet(m, id, o) ==
  IF MapHas(m, id)
  THEN [i \in 1..Len(m) |-> IF m[i].id = id THEN [id |-> id, obs |-> o] ELSE m[i]]
  ELSE Append(m, [id |-> id, obs |-> o])

\* Array.from(this.observers.values())
MapValues(m) == [i \in 1..Len(m) |-> m[i].obs]

RemoveAt(s, k) == [i \in 1..(Len(s) - 1) |-> IF i < k THEN s[i] ELSE s[i + 1]]

\* removeObserver: deletes the first entry whose value is the observer.
RemoveFirst(m, o) ==
  IF \E i \in 1..Len(m) : m[i].obs = o
  THEN RemoveAt(m, CHOOSE i \in 1..Len(m) :
                     /\ m[i].obs = o
                     /\ \A j \in 1..(i - 1) : m[j].obs # o)
  ELSE m

\* -------------------------------------------------------------------- notify
\* notify maps over the snapshot calling observer.update(data) one after the
\* other.  A synchronous throw of update leaves the map: the observers after
\* it are not called and the promise of notify rejects.  A rejected promise
\* of update is absorbed by Promise.allSettled, which never rejects, so the
\* catch of notify is not reached.
FirstThrow(snap) ==
  IF \E i \in 1..Len(snap) : Behaviour(snap[i]) = "throws"
  THEN CHOOSE i \in 1..Len(snap) :
         /\ Behaviour(snap[i]) = "throws"
         /\ \A j \in 1..(i - 1) : Behaviour(snap[j]) # "throws"
  ELSE 0

NotifyThrows(snap) == FirstThrow(snap) # 0

Invoked(snap) ==
  IF NotifyThrows(snap) THEN SubSeq(snap, 1, FirstThrow(snap)) ELSE snap

NotifyDeliveries(snap, ev) ==
  [i \in 1..Len(Invoked(snap)) |-> [obs |-> Invoked(snap)[i], ev |-> ev]]

\* --------------------------------------------------------------------- events
\* A TaskEvent.  origin and n are history fields of the model, not of the
\* program: where the event was built, and its number in creation order.
LocalEvent(type, tid, data) ==
  [type |-> type, taskId |-> tid, userId |-> LocalUser, timestamp |-> clock + 1,
   data |-> data, origin |-> "local", n |-> clock + 1]

\* the object broadcastEvent passes to socket.emit("task:event", ...)
WireMessage(ev) ==
  [js |-> "object", type |-> ev.type, taskId |-> ev.taskId, userId |-> ev.userId,
   timestamp |-> ToISOString(ev.timestamp), payload |-> ev.data]

\* data.payload
GetPayload(data) == IF "payload" \in DOMAIN data THEN data.payload ELSE NoData

\* new Date(data.timestamp): of a Date a copy, of a wire value its parse
DateOf(data) ==
  IF data.js = "event" /\ "timestamp" \in DOMAIN data
  THEN data.timestamp
  ELSE NewDate(Get(data, "timestamp"))

\* the event handleTaskEvent builds from what the socket handed it
RemoteEvent(data) ==
  [type |-> Get(data, "type"), taskId |-> Get(data, "taskId"),
   userId |-> Get(data, "userId"), timestamp |-> DateOf(data),
   data |-> GetPayload(data), origin |-> "remote", n |-> clock + 1]

\* what the peer may send on task:updated / task:created / task:deleted
WellFormed(type, tid) ==
  [js |-> "object", type |-> type, taskId |-> tid, userId |-> RemoteUser,
   timestamp |-> ToISOString(0), payload |-> TaskData(tid)]

Malformed ==
  { [js |-> "null"],                                   \* null: not an object
    [js |-> "object", taskId |-> "t1", userId |-> RemoteUser,
     timestamp |-> ToISOString(0), payload |-> TaskData("t1")],  \* no type
    [js |-> "object", type |-> "TASK_UPDATED", taskId |-> IllTyped,
     userId |-> RemoteUser, timestamp |-> Undefined,
     payload |-> TaskData("t1")] }          \* ill-typed taskId and timestamp

InboundMessages == {WellFormed("TASK_UPDATED", "t1")} \cup Malformed

\* the UserPresence records the peer may send on user:presence
PresenceMessages ==
  { [userId |-> RemoteUser, isOnline |-> TRUE, currentTaskId |-> "t1",
     lastSeen |-> 0] }

\* TaskEventType
EventTypes == {"TASK_CREATED", "TASK_UPDATED", "TASK_DELETED",
               "TASK_STATUS_CHANGED", "USER_PRESENCE_UPDATED"}

\* the hub after its constructor
InitHub ==
  /\ observers = << >>
  /\ hasSocket \in BOOLEAN
  /\ socketUp \in BOOLEAN
  /\ socketUp => hasSocket
  /\ isConnected = FALSE
  /\ eventQueue = << >>
  /\ calls = {}
  /\ sent = << >>
  /\ delivered = << >>
  /\ errors = << >>
  /\ outcome = << >>
  /\ published = << >>
  /\ clock = 0
  /\ nextId = 0
  /\ queuedAtShutdown = << >>
  /\ now = 0

\* no TaskEventHandler and no tasks router at work
InitRest ==
  /\ callbacks = {}
  /\ invoked = << >>
  /\ tasks = << >>
  /\ routerCalls = {}
  /\ replies = << >>

Init == InitHub /\ InitRest

\* ------------------------------------------------------------------- registry
\* addObserver(observer): the id defaults to generateObserverId()
AddObserver(o) ==
  /\ nextId' = nextId + 1
  /\ observers' = MapSet(observers, GenId(nextId + 1), o)
  /\ UNCHANGED <<hasSocket, socketUp, isConnected, eventQueue, calls, sent,
                 delivered, errors, outcome, published, clock>>

\* addObserver(observer, id) with an id of the caller
AddObserverWithId(o, id) ==
  /\ nextId' = nextId + 1
  /\ observers' = MapSet(observers, id, o)
  /\ UNCHANGED <<hasSocket, socketUp, isConnected, eventQueue, calls, sent,
                 delivered, errors, outcome, published, clock>>

RemoveObserver(o) ==
  /\ observers' = RemoveFirst(observers, o)
  /\ observers' # observers
  /\ UNCHANGED <<hasSocket, socketUp, isConnected, eventQueue, calls, sent,
                 delivered, errors, outcome, published, clock, nextId>>

\* -------------------------------------------------------------------- publish
\* one call socket.emit("task:event", message); ev is a history field: the
\* event the message was built from
SentEntry(ev) == [channel |-> "task:event", msg |-> WireMessage(ev), ev |-> ev]

\* the lines of broadcastEvent after the await: emit when connected, else queue
Outbound(ev) ==
  IF hasSocket /\ isConnected
  THEN /\ sent' = Append(sent, SentEntry(ev))
       /\ eventQueue' = eventQueue
  ELSE /\ eventQueue' = Append(eventQueue, ev)
       /\ sent' = sent

\* broadcastEvent up to `await this.notify(event)`.  When update throws
\* synchronously the promise of notify rejects and nothing catches it in
\* broadcastEvent nor in emitTask*: the publish call rejects and the lines
\* after the await never run.  With no observer to wait for, the await
\* resumes before any other task runs: the call is one step.
BroadcastEvent(ev) ==
  LET snap == MapValues(observers) IN
  /\ clock' = clock + 1
  /\ published' = Append(published, ev)
  /\ delivered' = delivered \o NotifyDeliveries(snap, ev)
  /\ IF NotifyThrows(snap)
     THEN /\ outcome' = outcome @@ (ev.n :> "rejected")
          /\ UNCHANGED <<calls, sent, eventQueue>>
     ELSE IF snap = << >>
     THEN /\ outcome' = outcome @@ (ev.n :> "ok")
          /\ calls' = calls
          /\ Outbound(ev)
     ELSE /\ outcome' = outcome @@ (ev.n :> "pending")
          /\ calls' = calls \cup {[op |-> "publish", ev |-> ev]}
          /\ UNCHANGED <<sent, eventQueue>>
  /\ UNCHANGED <<observers, hasSocket, socketUp, isConnected, errors, nextId>>

EmitTaskCreated(tid) == BroadcastEvent(LocalEvent("TASK_CREATED", tid, TaskData(tid)))

EmitTaskUpdated(tid) == BroadcastEvent(LocalEvent("TASK_UPDATED", tid, TaskData(tid)))

EmitTaskDeleted(tid) == BroadcastEvent(LocalEvent("TASK_DELETED", tid, DeletedData(tid)))

\* broadcastEvent resumed after the await
BroadcastOutbound(c) ==
  /\ c.op = "publish"
  /\ calls' = calls \ {c}
  /\ outcome' = [outcome EXCEPT ![c.ev.n] = "ok"]
  /\ Outbound(c.ev)
  /\ UNCHANGED <<observers, hasSocket, socketUp, isConnected, delivered, errors,
                 published, clock, nextId>>

\* broadcastEvent resumed after the await while connected, with a socket
\* whose emit throws: nothing in broadcastEvent or in emitTask* catches, so
\* the promise of the publish call rejects with the error of the socket and
\* no field of the hub changes
BroadcastOutboundEmitThrows(c) ==
  /\ c.op = "publish"
  /\ hasSocket /\ isConnected
  /\ calls' = calls \ {c}
  /\ outcome' = [outcome EXCEPT ![c.ev.n] = "emit threw"]
  /\ UNCHANGED <<observers, hasSocket, socketUp, isConnected, eventQueue, sent,
                 delivered, errors, published, clock, nextId>>

\* ---------------------------------------------------------------- event queue
\* processEventQueue as it would be had its loop tested the queue alone,
\* without `&& this.isConnected`
ProcessEventQueueAlways(conn, base) ==
  IF Len(eventQueue) > 0
  THEN LET ev == Head(eventQueue)
           snap == MapValues(observers) IN
       IF snap = << >>
       THEN /\ eventQueue' = << >>
            /\ delivered' = delivered
            /\ calls' = base
       ELSE /\ eventQueue' = Tail(eventQueue)
            /\ delivered' = delivered \o NotifyDeliveries(snap, ev)
            /\ calls' = IF NotifyThrows(snap)
                        THEN base
                        ELSE base \cup {[op |-> "drain", ev |-> ev]}
  ELSE /\ eventQueue' = eventQueue
       /\ delivered' = delivered
       /\ calls' = base

\* The loop of processEventQueue from a test of its condition up to its next
\* await, with conn the value of isConnected and base the calls that stay
\* suspended.  Each turn shifts the head of the queue and hands it to notify,
\* that is to the local observers; nothing is emitted on the socket.  A throw
\* of notify ends the call (nothing catches it): the loop does not go on.
\* With no observer to wait for, the await resumes before any other task
\* runs, turn after turn: the queue is emptied in one step.
ProcessEventQueue(conn, base) ==
  IF Len(eventQueue) > 0 /\ conn
  THEN LET ev == Head(eventQueue)
           snap == MapValues(observers) IN
       IF snap = << >>
       THEN /\ eventQueue' = << >>
            /\ delivered' = delivered
            /\ calls' = base
       ELSE /\ eventQueue' = Tail(eventQueue)
            /\ delivered' = delivered \o NotifyDeliveries(snap, ev)
            /\ calls' = IF NotifyThrows(snap)
                        THEN base
                        ELSE base \cup {[op |-> "drain", ev |-> ev]}
  ELSE /\ eventQueue' = eventQueue
       /\ delivered' = delivered
       /\ calls' = base

\* socket.on("connect")
SocketConnect ==
  /\ hasSocket /\ ~socketUp
  /\ socketUp' = TRUE
  /\ isConnected' = TRUE
  /\ ProcessEventQueue(TRUE, calls)
  /\ UNCHANGED <<observers, hasSocket, sent, errors, outcome, published, clock,
                 nextId>>

\* processEventQueue resumed after `await this.notify(event)`
ResumeProcessEventQueue(c) ==
  /\ c.op = "drain"
  /\ ProcessEventQueue(isConnected, calls \ {c})
  /\ UNCHANGED <<observers, hasSocket, socketUp, isConnected, sent, errors,
                 outcome, published, clock, nextId>>

\* the handler of "disconnect" as it would be had it left isConnected alone
SocketDisconnectKeepsFlag ==
  /\ hasSocket /\ socketUp
  /\ socketUp' = FALSE
  /\ UNCHANGED <<observers, hasSocket, isConnected, eventQueue, calls, sent,
                 delivered, errors, outcome, published, clock, nextId>>

\* socket.on("disconnect")
SocketDisconnect ==
  /\ hasSocket /\ socketUp
  /\ socketUp' = FALSE
  /\ isConnected' = FALSE
  /\ UNCHANGED <<observers, hasSocket, eventQueue, calls, sent, delivered,
                 errors, outcome, published, clock, nextId>>

\* -------------------------------------------------------------------- inbound
\* handleTaskEvent as it would be had it handed the event to broadcastEvent
\* instead of notify: the event of the peer goes back out on the socket
HandleTaskEventEcho(data) ==
  /\ hasSocket /\ socketUp
  /\ clock' = clock + 1
  /\ IF data.js = "null"
     THEN /\ errors' = Append(errors, [kind |-> "Task event handling failed",
                                       n |-> clock + 1])
          /\ UNCHANGED <<delivered, eventQueue, sent>>
     ELSE LET ev == RemoteEvent(data)
              snap == MapValues(observers) IN
          /\ delivered' = delivered \o NotifyDeliveries(snap, ev)
          /\ errors' = IF NotifyThrows(snap)
                       THEN Append(errors,
                                   [kind |-> "Task event handling failed",
                                    n |-> ev.n])
                       ELSE errors
          /\ IF NotifyThrows(snap)
             THEN UNCHANGED <<eventQueue, sent>>
             ELSE Outbound(ev)
  /\ UNCHANGED <<observers, hasSocket, socketUp, isConnected, calls, outcome,
                 published, nextId>>

\* handleTaskEvent.  Reading a property of null throws a TypeError, and a
\* throw of notify rejects the awaited promise: the catch reports both to
\* handleError.  After `await this.notify(event)` the handler only returns,
\* so the call is not kept among the suspended ones.
HandleTaskEvent(data) ==
  /\ hasSocket /\ socketUp
  /\ clock' = clock + 1
  /\ IF data.js = "null"
     THEN /\ errors' = Append(errors, [kind |-> "Task event handling failed",
                                       n |-> clock + 1])
          /\ UNCHANGED <<delivered, eventQueue>>
     ELSE LET ev == RemoteEvent(data)
              snap == MapValues(observers) IN
          IF isConnected
          THEN /\ delivered' = delivered \o NotifyDeliveries(snap, ev)
               /\ eventQueue' = eventQueue
               /\ errors' = IF NotifyThrows(snap)
                            THEN Append(errors,
                                        [kind |-> "Task event handling failed",
                                         n |-> ev.n])
                            ELSE errors
          ELSE /\ eventQueue' = Append(eventQueue, ev)
               /\ UNCHANGED <<delivered, errors>>
  /\ UNCHANGED <<observers, hasSocket, socketUp, isConnected, calls, sent,
                 outcome, published, nextId>>

\* socket.on("task:updated" | "task:created" | "task:deleted")
SocketTaskMessage(data) == HandleTaskEvent(data)

\* socket.on("user:presence"): handlePresenceUpdate wraps the presence record
\* in a TaskEvent and hands that object to handleTaskEvent
HandlePresenceUpdate(p) ==
  HandleTaskEvent([js |-> "event", type |-> "USER_PRESENCE_UPDATED",
                   taskId |-> IF p.currentTaskId = Undefined
                              THEN "" ELSE p.currentTaskId,
                   userId |-> p.userId, timestamp |-> clock + 1,
                   data |-> PresenceData(p)])

\* ------------------------------------------------------------------ shutdown
\* the queue entries a call of disconnect() finds, with the lengths of the
\* logs at that moment (history)
QueuedNow ==
  [i \in 1..Len(eventQueue) |->
     [ev |-> eventQueue[i], delivered |-> Len(delivered), sent |-> Len(sent)]]

\* disconnect() as it would be without `this.eventQueue.length = 0`
DisconnectKeepsQueue ==
  /\ socketUp' = FALSE
  /\ isConnected' = FALSE
  /\ observers' = << >>
  /\ eventQueue' = eventQueue
  /\ queuedAtShutdown' = queuedAtShutdown \o QueuedNow
  /\ UNCHANGED <<hasSocket, calls, sent, delivered, errors, outcome, published,
                 clock, nextId, now>>

\* disconnect(): socket.disconnect() closes the socket, whose "disconnect"
\* handler clears isConnected; then the registry and the queue are emptied
\* and isConnected is cleared.  The handlers stay registered on the socket
\* and the suspended calls stay suspended.
Disconnect ==
  /\ socketUp' = FALSE
  /\ isConnected' = FALSE
  /\ observers' = << >>
  /\ eventQueue' = << >>
  /\ queuedAtShutdown' = queuedAtShutdown \o QueuedNow
  /\ UNCHANGED <<hasSocket, calls, sent, delivered, errors, outcome, published,
                 clock, nextId, now>>

\* ----------------------------------------------------------------- heartbeat
\* the configuration options heartbeatIntervalMs and
\* heartbeatTimeoutMultiplier of the specification, at the values of its
\* scenario, and the silence after which the scenario looks at the hub
HeartbeatIntervalMs == 100
HeartbeatTimeoutMultiplier == 3
SilenceMs == 350
TickMs == 50                      \* the grain of time of the model

\* TickMs milliseconds pass without any message on the socket.  The hub
\* sets no timer (no setTimeout or setInterval in the class), so no code of
\* it runs when time passes: only the clock moves.
Tick ==
  /\ now' = now + TickMs
  /\ UNCHANGED <<observers, hasSocket, socketUp, isConnected, eventQueue, calls,
                 sent, delivered, errors, outcome, published, clock, nextId,
                 queuedAtShutdown>>

\* ------------------------------------------------------- notify, call by call
\* notify with the calls of update told apart, for what an update does to
\* the registry while the dispatch runs.  notify first copies the values of
\* the map into an array (Array.from), then map calls update on each element
\* of that array in turn; a suspended record keeps the array and the index
\* of the next element.
NotifyBegin(tid) ==
  LET ev == LocalEvent("TASK_UPDATED", tid, TaskData(tid)) IN
  /\ calls = {}
  /\ calls' = {[op |-> "notify", ev |-> ev, snap |-> MapValues(observers),
                pos |-> 1]}
  /\ clock' = clock + 1
  /\ published' = Append(published, ev)
  /\ outcome' = outcome @@ (ev.n :> "pending")
  /\ UNCHANGED <<observers, hasSocket, socketUp, isConnected, eventQueue, sent,
                 delivered, errors, nextId>>

\* what the synchronous part of an update does to the registry
Reentries ==
  {[do |-> "nothing", o |-> "ok"]}
    \cup {[do |-> "addObserver", o |-> o] : o \in Observers}
    \cup {[do |-> "removeObserver", o |-> o] : o \in Observers}

\* one turn of the map: update of the next element of the array is called;
\* it may register or unregister an observer before it returns its promise
\* or throws.  A throw leaves the map and notify: the later elements are not
\* called and the promise of notify rejects.
NotifyUpdate(c, r) ==
  /\ c.op = "notify"
  /\ c.pos <= Len(c.snap)
  /\ delivered' = Append(delivered, [obs |-> c.snap[c.pos], ev |-> c.ev])
  /\ observers' = CASE r.do = "nothing" -> observers
                    [] r.do = "addObserver" ->
                         MapSet(observers, GenId(nextId + 1), r.o)
                    [] r.do = "removeObserver" -> RemoveFirst(observers, r.o)
  /\ nextId' = IF r.do = "addObserver" THEN nextId + 1 ELSE nextId
  /\ IF Behaviour(c.snap[c.pos]) = "throws"
     THEN /\ calls' = calls \ {c}
          /\ outcome' = [outcome EXCEPT ![c.ev.n] = "rejected"]
     ELSE /\ calls' = (calls \ {c}) \cup {[c EXCEPT !.pos = c.pos + 1]}
          /\ outcome' = outcome
  /\ UNCHANGED <<hasSocket, socketUp, isConnected, eventQueue, sent, errors,
                 published, clock>>

\* the map is through: Promise.allSettled waits for the promises and notify
\* returns
NotifyEnd(c) ==
  /\ c.op = "notify"
  /\ c.pos > Len(c.snap)
  /\ calls' = calls \ {c}
  /\ outcome' = [outcome EXCEPT ![c.ev.n] = "ok"]
  /\ UNCHANGED <<observers, hasSocket, socketUp, isConnected, eventQueue, sent,
                 delivered, errors, published, clock, nextId>>

\* ---------------------------------------------------------- TaskEventHandler
\* the callbacks the constructor of TaskEventHandler takes
Callbacks == {"onTaskCreated", "onTaskUpdated", "onTaskDeleted"}

\* the JavaScript test `if (data)`: undefined and null are falsy, objects
\* are truthy
NullData == [kind |-> "null", id |-> ""]
Truthy(data) == data.kind \notin {"undefined", "null"}

\* a string passed to a callback
StringArg(str) == [kind |-> "string", id |-> str]

\* the events update is called with
HandlerEvents ==
  UNION {{[type |-> ty, taskId |-> tid, data |-> d] :
            ty \in EventTypes, d \in {TaskData(tid), NoData, NullData}} :
         tid \in TaskIds}

\* update as it would be without the test of event.data
UpdateWithoutDataTest(cbs, ev) ==
  CASE ev.type = "TASK_CREATED" ->
         IF "onTaskCreated" \in cbs
         THEN <<[callback |-> "onTaskCreated", arg |-> ev.data]>>
         ELSE << >>
    [] ev.type = "TASK_UPDATED" ->
         IF "onTaskUpdated" \in cbs
         THEN <<[callback |-> "onTaskUpdated", arg |-> ev.data]>>
         ELSE << >>
    [] ev.type = "TASK_DELETED" ->
         IF "onTaskDeleted" \in cbs
         THEN <<[callback |-> "onTaskDeleted", arg |-> StringArg(ev.taskId)]>>
         ELSE << >>
    [] OTHER -> << >>

\* TaskEventHandler.update: the callback calls it makes for event ev when
\* the handler was built with the callbacks cbs (the default branch only
\* logs)
Update(cbs, ev) ==
  CASE ev.type = "TASK_CREATED" ->
         IF "onTaskCreated" \in cbs /\ Truthy(ev.data)
         THEN <<[callback |-> "onTaskCreated", arg |-> ev.data]>>
         ELSE << >>
    [] ev.type = "TASK_UPDATED" ->
         IF "onTaskUpdated" \in cbs /\ Truthy(ev.data)
         THEN <<[callback |-> "onTaskUpdated", arg |-> ev.data]>>
         ELSE << >>
    [] ev.type = "TASK_DELETED" ->
         IF "onTaskDeleted" \in cbs
         THEN <<[callback |-> "onTaskDeleted", arg |-> StringArg(ev.taskId)]>>
         ELSE << >>
    [] OTHER -> << >>

\* one call handler.update(ev); invoked keeps the event and the calls made
HandlerUpdate(ev) ==
  /\ invoked' = <<[ev |-> ev, calls |-> Update(callbacks, ev)]>>
  /\ UNCHANGED <<callbacks, tasks, routerCalls, replies>>
  /\ UNCHANGED hubVars
  /\ UNCHANGED <<queuedAtShutdown, now>>

\* --------------------------------------------------------------- tasks router
\* The procedures getById, update, delete and bulkUpdateStatus of the tasks
\* router over the task repository.  Every call of the repository is one
\* access to the table at one moment; a procedure call waits in routerCalls
\* between its accesses, so calls of several users interleave.
RouterUsers == {"u1", "u2"}       \* ctx.userId of the callers
RouterTaskIds == {"a", "b", "c"}  \* input ids; "c" is the id of no task
UpdateStatus == "IN_PROGRESS"     \* input.status of update
BulkStatus == "COMPLETED"         \* input.status of bulkUpdateStatus

\* the table when the router starts: one task of each user
InitialTasks ==
  ("a" :> [id |-> "a", userId |-> "u1", status |-> "TODO"])
    @@ ("b" :> [id |-> "b", userId |-> "u2", status |-> "TODO"])

\* input.taskIds: the lists of one to MaxBulkLen ids, repetitions included
BulkLists ==
  UNION {[1..n -> RouterTaskIds] : n \in 1..MaxBulkLen}

\* messages are sequences of words
NotFoundMessage == <<"Task", "not", "found">>
ForbiddenMessage == <<"Access", "denied", "to", "this", "task">>
DeleteFailedMessage == <<"Failed", "to", "delete", "task">>
DatabaseMessage == <<"connection", "lost">>
RecordMissingMessage == <<"Record", "to", "update", "not", "found">>

\* message.includes(needle), for needles that are no part of a longer word
\* of the messages above
Includes(message, needle) == \E i \in 1..Len(message) : message[i] = needle

\* createTRPCError(code, message)
CreateTRPCError(code, message) ==
  [name |-> "TRPCError", code |-> code, message |-> message]

\* new Error(`Failed to ...: ${message}`) of the repository
RepositoryError(prefix, message) ==
  [name |-> "Error", code |-> "none", message |-> prefix \o message]

NoError == [name |-> "none", code |-> "none", message |-> << >>]

\* the prefix of the message of the outer catch of each procedure
FailedTo(proc) ==
  CASE proc = "getById" -> <<"Failed", "to", "retrieve", "task:">>
    [] proc = "update" -> <<"Failed", "to", "update", "task:">>
    [] proc = "delete" -> <<"Failed", "to", "delete", "task:">>

\* the outer catch of getById, update and delete: the error the call fails
\* with when err was thrown inside the try
Catch(proc, err) ==
  IF Includes(err.message, "TRPC")
  THEN err
  ELSE CreateTRPCError("INTERNAL_SERVER_ERROR", FailedTo(proc) \o err.message)

\* the ownership test of the procedures as it would be were it missing
OwnsAnything(task, user) == TRUE

\* task.userId === ctx.userId
Owns(task, user) == task.userId = user

\* the outcome of a finished call; at and dbFailed are history: the access
\* at which the call ended and whether the database failed at it
Reply(c, success, returned, err, at, dbFailed) ==
  [proc |-> c.proc, user |-> c.user, ids |-> c.ids, success |-> success,
   returned |-> returned, error |-> err,
   updatedCount |-> IF c.proc = "bulkUpdateStatus" THEN Len(returned) ELSE 0,
   requestedCount |-> IF c.proc = "bulkUpdateStatus" THEN Len(c.ids) ELSE 0,
   at |-> at, dbFailed |-> dbFailed]

\* a procedure is called: the call waits for its first findById
RouterCall(proc, user, ids, status) ==
  /\ routerCalls' = routerCalls \cup
       {[proc |-> proc, user |-> user, ids |-> ids, status |-> status,
         i |-> 1, pc |-> "find", updated |-> << >>]}
  /\ UNCHANGED <<tasks, replies, callbacks, invoked>>
  /\ UNCHANGED hubVars
  /\ UNCHANGED <<queuedAtShutdown, now>>

FindFailed == RepositoryError(<<"Failed", "to", "find", "task", "by", "ID:">>, DatabaseMessage)

\* the frame of every step of the router
RouterFrame ==
  /\ UNCHANGED <<callbacks, invoked>>
  /\ UNCHANGED hubVars
  /\ UNCHANGED <<queuedAtShutdown, now>>

\* the call c ends with the reply r
Finish(c, r) ==
  /\ routerCalls' = routerCalls \ {c}
  /\ replies' = Append(replies, r)

\* the call c ends by throwing err inside the try of its procedure
Throw(c, err, at, dbFailed) ==
  Finish(c, Reply(c, FALSE, << >>, Catch(c.proc, err), at, dbFailed))

\* the call c goes on to its repository write
GoWrite(c) ==
  /\ routerCalls' = (routerCalls \ {c}) \cup {[c EXCEPT !.pc = "write"]}
  /\ UNCHANGED replies

\* the findById of getById, update and delete resolves or rejects, and the
\* tests that follow it: the error thrown, or NoError when the call goes on
FindError(c, dbFails) ==
  LET id == c.ids[1]
  IN  IF dbFails THEN FindFailed
      ELSE IF id \notin DOMAIN tasks
      THEN CreateTRPCError("NOT_FOUND", NotFoundMessage)
      ELSE IF ~Owns(tasks[id], c.user)
      THEN CreateTRPCError("FORBIDDEN", ForbiddenMessage)
      ELSE NoError

\* getById, from the moment its findById is answered
GetById(c, dbFails) ==
  /\ c \in routerCalls
  /\ c.proc = "getById"
  /\ IF FindError(c, dbFails) # NoError
     THEN Throw(c, FindError(c, dbFails), "find", dbFails)
     ELSE Finish(c, Reply(c, TRUE, <<tasks[c.ids[1]]>>, NoError, "find", FALSE))
  /\ UNCHANGED tasks
  /\ RouterFrame

\* update and delete, from the moment their findById is answered up to the
\* call of the repository write
FindOwned(c, dbFails) ==
  /\ c \in routerCalls
  /\ c.proc \in {"update", "delete"}
  /\ c.pc = "find"
  /\ IF FindError(c, dbFails) # NoError
     THEN Throw(c, FindError(c, dbFails), "find", dbFails)
     ELSE GoWrite(c)
  /\ UNCHANGED tasks
  /\ RouterFrame

\* update, from the moment taskRepository.update is answered
UpdateWrite(c, dbFails) ==
  LET id == c.ids[1]
      updatedTask == [tasks[id] EXCEPT !.status = c.status]
  IN  /\ c \in routerCalls
      /\ c.proc = "update"
      /\ c.pc = "write"
      /\ IF dbFails
         THEN /\ Throw(c, RepositoryError(<<"Failed", "to", "update", "task:">>,
                                          DatabaseMessage), "write", TRUE)
              /\ UNCHANGED tasks
         ELSE IF id \notin DOMAIN tasks
         THEN /\ Throw(c, RepositoryError(<<"Failed", "to", "update", "task:">>,
                                          RecordMissingMessage), "write", FALSE)
              /\ UNCHANGED tasks
         ELSE /\ tasks' = [tasks EXCEPT ![id] = updatedTask]
              /\ Finish(c, Reply(c, TRUE, <<updatedTask>>, NoError, "write", FALSE))
      /\ RouterFrame

\* delete, from the moment taskRepository.delete is answered
DeleteWrite(c, dbFails) ==
  LET id == c.ids[1]
  IN  /\ c \in routerCalls
      /\ c.proc = "delete"
      /\ c.pc = "write"
      /\ IF dbFails
         THEN /\ Throw(c, RepositoryError(<<"Failed", "to", "delete", "task:">>,
                                          DatabaseMessage), "write", TRUE)
              /\ UNCHANGED tasks
         ELSE IF id \notin DOMAIN tasks
         THEN /\ Throw(c, CreateTRPCError("INTERNAL_SERVER_ERROR",
                                          DeleteFailedMessage), "write", FALSE)
              /\ UNCHANGED tasks
         ELSE /\ tasks' = [t \in DOMAIN tasks \ {id} |-> tasks[t]]
              /\ Finish(c, Reply(c, TRUE, << >>, NoError, "write", FALSE))
      /\ RouterFrame

\* bulkUpdateStatus after the item at c.i: the next turn of the loop, or
\* the return after the last one
NextItem(c, updated) ==
  IF c.i = Len(c.ids)
  THEN Finish(c, Reply(c, TRUE, updated, NoError, c.pc, FALSE))
  ELSE /\ routerCalls' = (routerCalls \ {c}) \cup
            {[c EXCEPT !.i = c.i + 1, !.pc = "find", !.updated = updated]}
       /\ UNCHANGED replies

\* the loop of bulkUpdateStatus as it would be without its inner try/catch
\* and test: an item that cannot be updated ends the call in the outer catch
SkipAborts(c) ==
  Finish(c, Reply(c, FALSE, << >>,
                  CreateTRPCError("INTERNAL_SERVER_ERROR",
                                  <<"Bulk", "update", "failed">>), c.pc, FALSE))

\* bulkUpdateStatus passes over the item at c.i: the test fails, or the
\* inner catch logs the error
Skip(c) == NextItem(c, c.updated)

\* bulkUpdateStatus, from the moment the findById of the item at c.i is
\* answered up to the call of update
BulkFind(c, dbFails) ==
  LET id == c.ids[c.i]
  IN  /\ c \in routerCalls
      /\ c.proc = "bulkUpdateStatus"
      /\ c.pc = "find"
      /\ IF ~dbFails /\ id \in DOMAIN tasks /\ Owns(tasks[id], c.user)
         THEN GoWrite(c)
         ELSE Skip(c)
      /\ UNCHANGED tasks
      /\ RouterFrame

\* bulkUpdateStatus, from the moment the update of the item at c.i is
\* answered
BulkWrite(c, dbFails) ==
  LET id == c.ids[c.i]
      updatedTask == [tasks[id] EXCEPT !.status = c.status]
  IN  /\ c \in routerCalls
      /\ c.proc = "bulkUpdateStatus"
      /\ c.pc = "write"
      /\ IF dbFails \/ id \notin DOMAIN tasks
         THEN /\ Skip(c)
              /\ UNCHANGED tasks
         ELSE /\ tasks' = [tasks EXCEPT ![id] = updatedTask]
              /\ NextItem(c, Append(c.updated, updatedTask))
      /\ RouterFrame

\* ------------------------------------------------------------ specifications
\* The hub with its environment: callers that register, unregister and
\* publish, the socket that connects, disconnects and delivers messages, and
\* the suspended calls that resume in any order.
Next ==
  \/ \E o \in Observers : nextId < MaxAdds /\ AddObserver(o)
       /\ UNCHANGED auxVars
  \/ \E o \in Observers, id \in SuppliedIds :
       nextId < MaxAdds /\ AddObserverWithId(o, id) /\ UNCHANGED auxVars
  \/ \E o \in Observers : RemoveObserver(o) /\ UNCHANGED auxVars
  \/ \E tid \in TaskIds : clock < MaxEvents /\ EmitTaskCreated(tid)
       /\ UNCHANGED auxVars
  \/ \E tid \in TaskIds : clock < MaxEvents /\ EmitTaskUpdated(tid)
       /\ UNCHANGED auxVars
  \/ \E tid \in TaskIds : clock < MaxEvents /\ EmitTaskDeleted(tid)
       /\ UNCHANGED auxVars
  \/ \E c \in calls : BroadcastOutbound(c) /\ UNCHANGED auxVars
  \/ SocketConnect /\ UNCHANGED auxVars
  \/ \E c \in calls : ResumeProcessEventQueue(c) /\ UNCHANGED auxVars
  \/ SocketDisconnect /\ UNCHANGED auxVars
  \/ \E data \in InboundMessages : clock < MaxEvents /\ SocketTaskMessage(data)
       /\ UNCHANGED auxVars
  \/ \E p \in PresenceMessages : clock < MaxEvents /\ HandlePresenceUpdate(p)
       /\ UNCHANGED auxVars

Spec == Init /\ [][Next]_vars

\* The hub while the socket never connects: one well-behaved observer and
\* MaxBacklogEvents publishes, each of which ends in the event queue.
InitBacklog ==
  /\ Init
  /\ ~socketUp

NextBacklog ==
  \/ nextId < 1 /\ AddObserver("ok") /\ UNCHANGED auxVars
  \/ clock < MaxBacklogEvents /\ EmitTaskCreated("t1") /\ UNCHANGED auxVars
  \/ clock < MaxBacklogEvents /\ EmitTaskUpdated("t1") /\ UNCHANGED auxVars
  \/ clock < MaxBacklogEvents /\ EmitTaskDeleted("t2") /\ UNCHANGED auxVars
  \/ \E c \in calls : BroadcastOutbound(c) /\ UNCHANGED auxVars

SpecBacklog == InitBacklog /\ [][NextBacklog]_vars

\* The hub on a socket whose emit may throw: one well-behaved observer,
\* MaxSendEvents publishes, and a connection that comes and goes.
NextSend ==
  \/ nextId < 1 /\ AddObserver("ok") /\ UNCHANGED auxVars
  \/ \E tid \in TaskIds : clock < MaxSendEvents /\ EmitTaskUpdated(tid)
       /\ UNCHANGED auxVars
  \/ \E c \in calls : BroadcastOutbound(c) /\ UNCHANGED auxVars
  \/ \E c \in calls : BroadcastOutboundEmitThrows(c) /\ UNCHANGED auxVars
  \/ SocketConnect /\ UNCHANGED auxVars
  \/ \E c \in calls : ResumeProcessEventQueue(c) /\ UNCHANGED auxVars
  \/ SocketDisconnect /\ UNCHANGED auxVars

SpecSend == Init /\ [][NextSend]_vars

\* The registry under dispatch: callers register observers and call notify,
\* and the updates register and unregister observers while notify runs.
NextDispatch ==
  \/ \E o \in Observers :
       calls = {} /\ nextId < MaxDispatchAdds /\ AddObserver(o)
       /\ UNCHANGED auxVars
  \/ \E tid \in TaskIds : clock < MaxDispatchEvents /\ NotifyBegin(tid)
       /\ UNCHANGED auxVars
  \/ \E c \in calls, r \in Reentries :
       /\ r.do = "addObserver" => nextId < MaxDispatchAdds
       /\ NotifyUpdate(c, r)
       /\ UNCHANGED auxVars
  \/ \E c \in calls : NotifyEnd(c) /\ UNCHANGED auxVars

SpecDispatch == Init /\ [][NextDispatch]_vars

\* The hub with its shutdown: observers register, events are published, the
\* socket connects and disconnects, and disconnect() is called at any moment,
\* also while calls are suspended and before the socket connects again.
NextShutdown ==
  \/ \E o \in Observers : nextId < MaxShutdownAdds /\ AddObserver(o)
       /\ UNCHANGED auxVars
  \/ \E tid \in TaskIds : clock < MaxShutdownEvents /\ EmitTaskCreated(tid)
       /\ UNCHANGED auxVars
  \/ \E c \in calls : BroadcastOutbound(c) /\ UNCHANGED auxVars
  \/ SocketConnect /\ UNCHANGED auxVars
  \/ \E c \in calls : ResumeProcessEventQueue(c) /\ UNCHANGED auxVars
  \/ SocketDisconnect /\ UNCHANGED auxVars
  \/ Disconnect /\ UNCHANGED restVars

SpecShutdown == Init /\ [][NextShutdown]_vars

\* The hub on a socket that connects and then stays silent: observers
\* register and the socket connects before time is counted, then time
\* passes while events are published; now is the silence since the connect.
NextHeartbeat ==
  \/ \E o \in Observers :
       now = 0 /\ nextId < MaxHeartbeatAdds /\ AddObserver(o)
       /\ UNCHANGED auxVars
  \/ now = 0 /\ SocketConnect /\ UNCHANGED auxVars
  \/ isConnected /\ now < MaxSilenceMs /\ Tick /\ UNCHANGED restVars
  \/ \E tid \in TaskIds : clock < MaxHeartbeatEvents /\ EmitTaskUpdated(tid)
       /\ UNCHANGED auxVars
  \/ \E c \in calls : BroadcastOutbound(c) /\ UNCHANGED auxVars

SpecHeartbeat == Init /\ [][NextHeartbeat]_vars

\* The hub under the scheduling of JavaScript: callers and the socket act
\* or stop as they please, while every suspended call whose promises have
\* settled is resumed by the event loop (weak fairness of the resumptions).
NextDrain ==
  \/ \E o \in Observers : nextId < MaxDrainAdds /\ AddObserver(o)
       /\ UNCHANGED auxVars
  \/ \E tid \in TaskIds : clock < MaxDrainEvents /\ EmitTaskCreated(tid)
       /\ UNCHANGED auxVars
  \/ \E c \in calls : BroadcastOutbound(c) /\ UNCHANGED auxVars
  \/ SocketConnect /\ UNCHANGED auxVars
  \/ \E c \in calls : ResumeProcessEventQueue(c) /\ UNCHANGED auxVars
  \/ SocketDisconnect /\ UNCHANGED auxVars

SpecDrain ==
  /\ Init
  /\ [][NextDrain]_vars
  /\ WF_vars(\E c \in calls : BroadcastOutbound(c) /\ UNCHANGED auxVars)
  /\ WF_vars(\E c \in calls : ResumeProcessEventQueue(c) /\ UNCHANGED auxVars)

\* A TaskEventHandler built with any of its callbacks, called with events
\* of every type, with and without data.
InitHandler ==
  /\ InitHub
  /\ ~hasSocket
  /\ callbacks \in SUBSET Callbacks
  /\ invoked = << >>
  /\ tasks = << >>
  /\ routerCalls = {}
  /\ replies = << >>

NextHandler == \E ev \in HandlerEvents : HandlerUpdate(ev)

SpecHandler == InitHandler /\ [][NextHandler]_vars

\* The tasks router alone: the hub stays as constructed, and at most
\* MaxRouterCalls procedure calls are made, by either user, in any order.
InitRouter ==
  /\ InitHub
  /\ ~hasSocket
  /\ callbacks = {}
  /\ invoked = << >>
  /\ tasks = InitialTasks
  /\ routerCalls = {}
  /\ replies = << >>

Started == Cardinality(routerCalls) + Len(replies)

NextRouter ==
  \/ \E u \in RouterUsers, id \in RouterTaskIds :
       Started < MaxRouterCalls /\ RouterCall("getById", u, <<id>>, "none")
  \/ \E u \in RouterUsers, id \in RouterTaskIds :
       Started < MaxRouterCalls /\ RouterCall("update", u, <<id>>, UpdateStatus)
  \/ \E u \in RouterUsers, id \in RouterTaskIds :
       Started < MaxRouterCalls /\ RouterCall("delete", u, <<id>>, "none")
  \/ \E u \in RouterUsers, ids \in BulkLists :
       Started < MaxRouterCalls /\ RouterCall("bulkUpdateStatus", u, ids, BulkStatus)
  \/ \E c \in routerCalls, dbFails \in BOOLEAN : GetById(c, dbFails)
  \/ \E c \in routerCalls, dbFails \in BOOLEAN : FindOwned(c, dbFails)
  \/ \E c \in routerCalls, dbFails \in BOOLEAN : UpdateWrite(c, dbFails)
  \/ \E c \in routerCalls, dbFails \in BOOLEAN : DeleteWrite(c, dbFails)
  \/ \E c \in routerCalls, dbFails \in BOOLEAN : BulkFind(c, dbFails)
  \/ \E c \in routerCalls, dbFails \in BOOLEAN : BulkWrite(c, dbFails)

SpecRouter == InitRouter /\ [][NextRouter]_vars

\* ---------------------------------------------------------------- properties
\* the configuration option backlogCapacity of the specification (section 6)
BacklogCapacity == 3

\* what a step appended to the log of update invocations
NewDeliveries == SubSeq(delivered', Len(delivered) + 1, Len(delivered'))

\* the step is the start of a publish call (emitTask* built an event)
PublishStep == Len(published') = Len(published) + 1

PublishedEvent == published'[Len(published')]

\* the step is the one at which the publish call of event n ends
PublishEnds(n) ==
  /\ n \notin DOMAIN outcome \/ outcome[n] = "pending"
  /\ n \in DOMAIN outcome'
  /\ outcome'[n] # "pending"

\* update of this observer fails on every call: it throws or it rejects
Fails(o) == Behaviour(o) \in {"throws", "rejects"}

\* the steps that take entries from the head of the queue while connected
DrainStepOf(k) ==
  /\ k > 0
  /\ isConnected'
  /\ Len(eventQueue) >= k
  /\ eventQueue' = SubSeq(eventQueue, k + 1, Len(eventQueue))

IsString(v) == v \notin {Undefined, IllTyped}

\* the event carries the fields a well-formed message gives it
EventWellFormed(ev) ==
  /\ ev.type \in EventTypes
  /\ IsString(ev.taskId)
  /\ IsString(ev.userId)
  /\ ev.timestamp # InvalidDate

\* C1: a subscriber whose update always fails does not prevent delivery to
\* the others: every publish invokes every subscriber registered at that
\* time, and the registry is left as it was.
FailingSubscriberIsolated ==
  [][PublishStep =>
       /\ \A i \in 1..Len(observers) :
            \E k \in 1..Len(NewDeliveries) :
              NewDeliveries[k] = [obs |-> observers[i].obs, ev |-> PublishedEvent]
       /\ observers' = observers]_vars

\* C2: publish never fails because of a subscriber failure: no publish call
\* ends with the error of a subscriber (a rejected promise).
PublishNeverFails ==
  \A n \in DOMAIN outcome : outcome[n] # "rejected"

\* C3: every publish hands the event to the outbound path: when the publish
\* call ends, the event has been sent on the socket (connected) or stands in
\* the backlog (not connected).
PublishReachesOutbound ==
  [][\A k \in 1..Len(published') :
       LET ev == published'[k] IN
       PublishEnds(ev.n) =>
         \/ isConnected /\ \E i \in 1..Len(sent') : sent'[i].ev = ev
         \/ ~isConnected /\ \E i \in 1..Len(eventQueue') : eventQueue'[i] = ev]_vars

\* C4: a publish made while connected and with at least one subscriber
\* delivers the event once to every registered subscriber, in registration
\* order, at the publish itself (so in publish order for each taskId).
ConnectedPublishDeliversOnce ==
  [][PublishStep /\ isConnected /\ Len(observers) >= 1 =>
       NewDeliveries = [i \in 1..Len(observers) |->
                          [obs |-> observers[i].obs, ev |-> PublishedEvent]]]_vars

\* C5: the entries that leave the backlog while connected are sent outward
\* on the socket, in their enqueue order.
BacklogSentInOrder ==
  [][\A k \in 1..Len(eventQueue) :
       DrainStepOf(k) =>
         /\ Len(sent') = Len(sent) + k
         /\ \A i \in 1..k : sent'[Len(sent) + i].ev = eventQueue[i]]_vars

\* C6: outbound path: a publish call that ends while connected has sent its
\* event and left the backlog unchanged; one that ends while not connected
\* has appended its event at the end of the backlog and sent nothing.
OutboundSendsOrBacklogs ==
  [][\A k \in 1..Len(published') :
       LET ev == published'[k] IN
       PublishEnds(ev.n) =>
         IF isConnected
         THEN /\ Len(sent') = Len(sent) + 1
              /\ sent'[Len(sent')].ev = ev
              /\ SubSeq(sent', 1, Len(sent)) = sent
              /\ eventQueue' = eventQueue
         ELSE /\ eventQueue' = Append(eventQueue, ev)
              /\ sent' = sent]_vars

\* C7: the backlog never holds more than backlogCapacity entries, and once
\* every publish call has ended while disconnected it holds
\* min(N, backlogCapacity) of the N published events.
BacklogBounded ==
  /\ Len(eventQueue) <= BacklogCapacity
  /\ calls = {} =>
       Len(eventQueue) = IF Len(published) < BacklogCapacity
                         THEN Len(published) ELSE BacklogCapacity

\* C8: an event that arrived from the remote peer is never sent outward:
\* nothing socket.emit was called with was built from a remote event.
NoEcho ==
  \A i \in 1..Len(sent) : sent[i].ev.origin = "local"

\* a remote event went through the backlog and was handed to the local
\* observers by the drain, after a local event had been sent outward
NoEchoWitness ==
  /\ Len(sent) > 0
  /\ \E c \in calls :
       /\ c.op = "drain"
       /\ c.ev.origin = "remote"
       /\ \E i \in 1..Len(delivered) : delivered[i].ev = c.ev

\* C9: a malformed inbound message produces no event delivered to a
\* subscriber: every remote event handed to update carries a known type,
\* string ids and a valid timestamp.
MalformedInboundDropped ==
  \A i \in 1..Len(delivered) :
    delivered[i].ev.origin = "remote" => EventWellFormed(delivered[i].ev)

\* C10: every subscriber failure is reported through the error sink: once no
\* dispatch is in flight, each invocation of a failing subscriber has a
\* report of handleError for its event.
FailuresReported ==
  calls = {} =>
    \A i \in 1..Len(delivered) :
      Fails(delivered[i].obs) =>
        \E j \in 1..Len(errors) : errors[j].n = delivered[i].ev.n

IsPrefix(s, t) == Len(s) <= Len(t) /\ s = SubSeq(t, 1, Len(s))

IsSuffix(s, t) ==
  Len(s) <= Len(t) /\ s = SubSeq(t, Len(t) - Len(s) + 1, Len(t))

\* C11: a connection that drops while the backlog is drained leaves the
\* entries not yet drained in the backlog, in their enqueue order: while not
\* connected the backlog only grows at its end; entries leave it only while
\* connected and from its head, the entry handed to the observers being the
\* oldest one; and the step that enters Connected with a backlog takes up
\* the drain at its head.
InterruptedDrainKeepsBacklog ==
  [][/\ ~isConnected' => IsPrefix(eventQueue, eventQueue')
     /\ Len(eventQueue') < Len(eventQueue) =>
          /\ isConnected'
          /\ IsSuffix(eventQueue', eventQueue)
          /\ observers # << >> =>
               /\ eventQueue' = Tail(eventQueue)
               /\ Len(NewDeliveries) >= 1
               /\ \A i \in 1..Len(NewDeliveries) :
                    NewDeliveries[i].ev = Head(eventQueue)
     /\ ~isConnected /\ isConnected' /\ Len(eventQueue) > 0 =>
          Len(eventQueue') < Len(eventQueue)]_vars

\* the connection dropped while the first backlog entry was awaited, and the
\* drain started by the next connect took the second one: both are in flight
InterruptedDrainWitness ==
  \E c1 \in calls, c2 \in calls :
    /\ c1.op = "drain" /\ c2.op = "drain"
    /\ c1.ev.n < c2.ev.n
    /\ isConnected
    /\ eventQueue = << >>

\* the calls of processEventQueue that have not returned yet
DrainsInProgress == {c \in calls : c.op = "drain"}

\* C12: appending to the backlog and draining it are serialized: no step
\* leads to two drains of the backlog in progress at the same time, and no
\* step appends an event to the backlog while a drain is in progress.
BacklogSerialized ==
  [][/\ Cardinality(DrainsInProgress') <= 1
     /\ DrainsInProgress # {} => Len(eventQueue') <= Len(eventQueue)]_vars

\* the connection state the hub keeps: the flag isConnected and nothing else
ConnectionState == IF isConnected THEN "Connected" ELSE "Disconnected"

SendFails(c) ==
  /\ c \in calls
  /\ c.op = "publish"
  /\ c \notin calls'
  /\ outcome'[c.ev.n] = "emit threw"

\* C14: a failure of the outbound send takes the hub to Disconnected at once
\* and puts the event that was being sent back at the front of the backlog.
SendFailureRequeues ==
  [][\A c \in calls :
       SendFails(c) =>
         /\ ConnectionState' = "Disconnected"
         /\ eventQueue' = <<c.ev>> \o eventQueue]_vars

\* the number of registrations of observer o in the map m
Count(m, o) == Cardinality({i \in 1..Len(m) : m[i].obs = o})

\* the step is a call removeObserver(o) that found o
RemoveReturns(o) ==
  /\ Len(observers') < Len(observers)
  /\ Count(observers', o) < Count(observers, o)

\* C15: once removeObserver(o) has returned, o receives no event of a
\* dispatch that begins afterwards unless it is registered again: the call
\* leaves no registration of o, and a dispatch invokes only observers that
\* are registered when it begins.
UnregisterTakesEffect ==
  [][/\ \A o \in Observers : RemoveReturns(o) => Count(observers', o) = 0
     /\ \A i \in 1..Len(NewDeliveries) :
          Count(observers, NewDeliveries[i].obs) > 0]_vars

\* C17: removeObserver is idempotent: for an observer that is not registered
\* it leaves the registry as it is (it touches nothing else), and called
\* twice in a row it leaves the registry that one call leaves.
UnregisterIdempotent ==
  \A o \in Observers :
    /\ Count(observers, o) = 0 => RemoveFirst(observers, o) = observers
    /\ RemoveFirst(RemoveFirst(observers, o), o) = RemoveFirst(observers, o)

\* the invocations of update the log holds for event ev
DeliveriesOf(log, ev) == SelectSeq(log, LAMBDA d : d.ev = ev)

\* the step at which the notify call c ends, with or without an error
DispatchEnds(c) ==
  /\ c.op = "notify"
  /\ \A d \in calls' : d.ev # c.ev

\* C16: a dispatch delivers to exactly the subscribers of its snapshot,
\* whatever is registered or unregistered while it is in flight: when notify
\* ends, update has been called once on every element of the array taken at
\* its start, in order, and on nothing else.
DispatchDeliversSnapshot ==
  [][\A c \in calls :
       DispatchEnds(c) =>
         DeliveriesOf(delivered', c.ev) =
           [i \in 1..Len(c.snap) |-> [obs |-> c.snap[i], ev |-> c.ev]]]_vars

\* the step is a call of addObserver
AddStep == nextId' = nextId + 1

\* C18: every registration, with a generated or a caller-supplied id, is
\* stored under a handle no live subscription has: it adds one entry to the
\* registry and leaves every existing subscription in place.
RegistrationNeverReplaces ==
  [][AddStep =>
       /\ Len(observers') = Len(observers) + 1
       /\ SubSeq(observers', 1, Len(observers)) = observers
       /\ ~MapHas(observers, observers'[Len(observers')].id)]_vars

\* the channels on which an instance listens for task messages
TaskChannels == {"task:updated", "task:created", "task:deleted"}

\* the events an instance hands to its observers when its socket receives
\* msg on channel while connected: handleTaskEvent decodes the message on
\* the channels it is registered for, and no handler runs on any other
\* ("user:presence" carries presence records, not task messages)
PeerDispatch(channel, msg) ==
  IF channel \in TaskChannels THEN {RemoteEvent(msg)} ELSE {}

Equivalent(a, b) ==
  /\ a.type = b.type
  /\ a.taskId = b.taskId
  /\ a.userId = b.userId
  /\ a.data = b.data

\* C19: round trip: every event an instance sends outward, received by a
\* second instance, makes that instance dispatch an equivalent event (same
\* type, taskId, userId and data).
RoundTrip ==
  \A i \in 1..Len(sent) :
    \E e \in PeerDispatch(sent[i].channel, sent[i].msg) :
      Equivalent(e, sent[i].ev)

\* the step is the handler of "disconnect" taking the hub out of Connected
EntersDisconnected ==
  ConnectionState = "Connected" /\ ConnectionState' = "Disconnected"

\* the hub has been Connected before: it has sent an event on the socket
HasBeenConnected == sent # << >>

\* C20: entering Disconnected changes the connection state only: the step
\* leaves backlog and registry as they are and delivers and sends nothing;
\* and a publish call that ends while the hub is Disconnected again has
\* appended its event to the backlog.
DisconnectOnlyChangesState ==
  [][/\ EntersDisconnected =>
          /\ eventQueue' = eventQueue
          /\ observers' = observers
          /\ delivered' = delivered
          /\ sent' = sent
     /\ \A k \in 1..Len(published') :
          LET ev == published'[k] IN
          (/\ HasBeenConnected
           /\ ConnectionState = "Disconnected"
           /\ PublishEnds(ev.n)) => eventQueue' = Append(eventQueue, ev)]_vars

\* C21: after disconnect() no backlog is flushed: no event that stood in the
\* queue when disconnect() was called is handed to an observer or sent on
\* the socket afterwards, whatever the socket reports later and whatever
\* call was suspended at that moment.
NoFlushAfterShutdown ==
  \A k \in 1..Len(queuedAtShutdown) :
    LET q == queuedAtShutdown[k] IN
    /\ \A i \in (q.delivered + 1)..Len(delivered) : delivered[i].ev # q.ev
    /\ \A i \in (q.sent + 1)..Len(sent) : sent[i].ev # q.ev

\* disconnect() dropped a queued event while a drain was awaiting, the socket
\* connected again, and an observer has been invoked since
ShutdownWitness ==
  /\ isConnected
  /\ \E k \in 1..Len(queuedAtShutdown) :
       /\ queuedAtShutdown[k].delivered < Len(delivered)
       /\ \E c \in calls : c.op = "drain" /\ c.ev.n < queuedAtShutdown[k].ev.n

\* the event tells the observers that a user of the peer went offline
IsOfflinePresence(ev) ==
  /\ ev.type = "USER_PRESENCE_UPDATED"
  /\ ev.userId = RemoteUser
  /\ ev.data.kind = "presence"
  /\ ~ev.data.isOnline

\* C22: every transition to Disconnected hands a USER_PRESENCE_UPDATED event
\* with isOnline = false for the user of the peer to the local observers.
DisconnectEmitsOffline ==
  [][EntersDisconnected /\ observers # << >> =>
       \E i \in 1..Len(NewDeliveries) :
         IsOfflinePresence(NewDeliveries[i].ev)]_vars

\* the offline events handed to the observers so far
OfflineEvents ==
  {delivered[i].ev : i \in {j \in 1..Len(delivered) :
                              IsOfflinePresence(delivered[j].ev)}}

\* C23: heartbeat timeout: with heartbeatIntervalMs = 100 and
\* heartbeatTimeoutMultiplier = 3, once the socket has been silent for 350 ms
\* after the connect, one USER_PRESENCE_UPDATED event with isOnline = false
\* has been handed to the observers, and never more than one.
HeartbeatTimeoutEmitsOnce ==
  /\ Cardinality(OfflineEvents) <= 1
  /\ (/\ isConnected
      /\ observers # << >>
      /\ SilenceMs >= HeartbeatIntervalMs * HeartbeatTimeoutMultiplier
      /\ now >= SilenceMs) => Cardinality(OfflineEvents) = 1

\* C24: no event is handed to the same observer by two dispatches: what a
\* step hands to an observer has not been handed to it by an earlier step,
\* in particular not when the backlog is drained after a reconnect.
DeliveredAtMostOnce ==
  [][\A i \in 1..Len(NewDeliveries) :
       \A j \in 1..Len(delivered) : delivered[j] # NewDeliveries[i]]_vars

\* C25: while the connection is up the backlog is drained: whenever the hub
\* is Connected with a non-empty backlog, the backlog is empty at some later
\* moment, unless the connection drops; also when an update fails.
BacklogEventuallyDrained ==
  (ConnectionState = "Connected" /\ eventQueue # << >>)
    ~> (eventQueue = << >> \/ ConnectionState = "Disconnected")

\* C26: an inbound user:presence message reaches the observers as a
\* USER_PRESENCE_UPDATED event for the user of the message whose data is the
\* presence record received (userId, isOnline, currentTaskId, lastSeen).
PresenceRecordDelivered ==
  \A i \in 1..Len(delivered) :
    LET ev == delivered[i].ev IN
    (ev.origin = "remote" /\ ev.type = "USER_PRESENCE_UPDATED") =>
      \E p \in PresenceMessages :
        /\ ev.userId = p.userId
        /\ ev.data = PresenceData(p)

\* the callback that goes with an event type, if any
CallbackOf(type) ==
  CASE type = "TASK_CREATED" -> "onTaskCreated"
    [] type = "TASK_UPDATED" -> "onTaskUpdated"
    [] type = "TASK_DELETED" -> "onTaskDeleted"
    [] OTHER -> "none"

\* the argument the callback of an event is to be called with
ArgumentOf(ev) ==
  IF ev.type = "TASK_DELETED" THEN StringArg(ev.taskId) ELSE ev.data

\* C27 (as claimed): update calls the callback that goes with the type of
\* the event, once and with event.data (event.taskId for TASK_DELETED),
\* whenever that callback was supplied, and calls nothing otherwise.
UpdateCallsMatchingCallback ==
  \A k \in 1..Len(invoked) :
    LET ev == invoked[k].ev IN
    invoked[k].calls =
      IF CallbackOf(ev.type) \in callbacks
      THEN <<[callback |-> CallbackOf(ev.type), arg |-> ArgumentOf(ev)]>>
      ELSE << >>

\* C27 (amended): update makes at most one call, to the callback that goes
\* with the type of the event and with event.data (event.taskId for
\* TASK_DELETED); it makes that call exactly if the callback was supplied
\* and, for TASK_CREATED and TASK_UPDATED, event.data is truthy.
UpdateCallsMatchingCallbackWithData ==
  \A k \in 1..Len(invoked) :
    LET ev == invoked[k].ev
        made == invoked[k].calls IN
    /\ Len(made) <= 1
    /\ \A i \in 1..Len(made) :
         /\ made[i].callback = CallbackOf(ev.type)
         /\ made[i].callback \in callbacks
         /\ made[i].arg = ArgumentOf(ev)
    /\ Len(made) = 1 <=>
         /\ CallbackOf(ev.type) \in callbacks
         /\ ev.type \in {"TASK_CREATED", "TASK_UPDATED"} => Truthy(ev.data)

\* update was called with a TASK_UPDATED event without data on a handler
\* that has onTaskUpdated, and called nothing
UpdateWithoutDataWitness ==
  \E k \in 1..Len(invoked) :
    /\ invoked[k].ev.type = "TASK_UPDATED"
    /\ "onTaskUpdated" \in callbacks
    /\ ~Truthy(invoked[k].ev.data)
    /\ invoked[k].calls = << >>

\* the step is one of the call c: c leaves routerCalls, ended or moved on
StepOf(c) == c \in routerCalls /\ c \notin routerCalls'

\* the reply the step ends a call with, when it ends one
Replied == Len(replies') = Len(replies) + 1
NewReply == replies'[Len(replies')]

\* the call c of bulkUpdateStatus is past the item at c.i after the step,
\* with the tasks updated so far: at the next item, or ended with success
\* and a reply that carries these tasks and their number
PastItem(c, updated) ==
  IF c.i < Len(c.ids)
  THEN /\ [c EXCEPT !.i = c.i + 1, !.pc = "find", !.updated = updated] \in routerCalls'
       /\ ~Replied
  ELSE /\ Replied
       /\ NewReply.proc = c.proc /\ NewReply.user = c.user /\ NewReply.ids = c.ids
       /\ NewReply.success
       /\ NewReply.error = NoError
       /\ NewReply.returned = updated
       /\ NewReply.updatedCount = Len(updated)
       /\ NewReply.requestedCount = Len(c.ids)
       /\ NewReply.updatedCount <= NewReply.requestedCount
       /\ DOMAIN NewReply =
            {"proc", "user", "ids", "success", "returned", "error",
             "updatedCount", "requestedCount", "at", "dbFailed"}

\* the item at c.i is a task that exists and is the caller's
OwnItem(c) ==
  /\ c.ids[c.i] \in DOMAIN tasks
  /\ tasks[c.ids[c.i]].userId = c.user

\* C28: bulkUpdateStatus never fails as a whole.  Each step of a call
\* either (1) goes on to the update of the item it is at, a task that
\* exists and is the caller's, or (2) passes over the item (missing, of
\* another user, or failing in the repository) and leaves the table as it
\* is, or (3) gives the requested status to the item, a task that exists
\* and is the caller's, changes nothing else and counts it.  After the last
\* item the call returns success with the tasks updated, updatedCount their
\* number, which is the number of items of the list that were updated (an
\* id listed twice counts twice) and at most requestedCount, and no field
\* that names the items passed over.
BulkUpdateSkipsFailures ==
  [][\A c \in routerCalls :
       (c.proc = "bulkUpdateStatus" /\ StepOf(c)) =>
         LET id == c.ids[c.i]
         IN  \/ /\ c.pc = "find"
                /\ OwnItem(c)
                /\ [c EXCEPT !.pc = "write"] \in routerCalls'
                /\ ~Replied
                /\ tasks' = tasks
             \/ /\ PastItem(c, c.updated)
                /\ tasks' = tasks
             \/ /\ c.pc = "write"
                /\ OwnItem(c)
                /\ tasks' = [tasks EXCEPT ![id].status = c.status]
                /\ PastItem(c, Append(c.updated, tasks'[id]))]_vars

\* a bulk call of two items has ended with success having updated one of
\* them and passed over the other
BulkPartialWitness ==
  \E k \in 1..Len(replies) :
    /\ replies[k].proc = "bulkUpdateStatus"
    /\ replies[k].success
    /\ replies[k].requestedCount = 2
    /\ replies[k].updatedCount = 1
    /\ \E id \in DOMAIN tasks : tasks[id].status = BulkStatus


\* C29: a step of a call leaves every stored task of another user as it
\* is, neither changed nor deleted, and a reply the step ends the call with
\* does not carry such a task; this holds for getById, update, delete and
\* bulkUpdateStatus, in every interleaving of the calls.
OnlyOwnerTouchesTask ==
  [][\A c \in routerCalls :
       StepOf(c) =>
         \A id \in DOMAIN tasks :
           tasks[id].userId # c.user =>
             /\ id \in DOMAIN tasks'
             /\ tasks'[id] = tasks[id]
             /\ Replied =>
                  \A k \in 1..Len(NewReply.returned) :
                    NewReply.returned[k].id # id]_vars

\* calls of getById, update, delete and bulkUpdateStatus on the task of
\* another user have ended, and that task is still as it was stored
ForeignCallWitness ==
  \E k \in 1..Len(replies) :
    /\ replies[k].at = "find"
    /\ ~replies[k].dbFailed
    /\ replies[k].returned = << >>
    /\ \A j \in 1..Len(replies[k].ids) :
         /\ replies[k].ids[j] \in DOMAIN tasks
         /\ tasks[replies[k].ids[j]].userId # replies[k].user
         /\ tasks[replies[k].ids[j]] = InitialTasks[replies[k].ids[j]]

\* C30: a call of getById, update or delete whose findById is answered
\* fails with code NOT_FOUND when the id is of no task and with code
\* FORBIDDEN when the task is of another user, and a call fails with
\* INTERNAL_SERVER_ERROR only when the repository failed: the database
\* failed at the access, or the task was gone at the write.
OwnErrorsRethrown ==
  [][\A c \in routerCalls :
       (StepOf(c) /\ c.proc \in {"getById", "update", "delete"} /\ Replied) =>
         LET id == c.ids[1]
             answered == c.pc = "find" /\ ~NewReply.dbFailed
         IN  /\ (answered /\ id \notin DOMAIN tasks) =>
                  NewReply.error.code = "NOT_FOUND"
             /\ (answered /\ id \in DOMAIN tasks /\ tasks[id].userId # c.user) =>
                  NewReply.error.code = "FORBIDDEN"
             /\ NewReply.error.code = "INTERNAL_SERVER_ERROR" =>
                  \/ NewReply.dbFailed
                  \/ c.pc = "write" /\ id \notin DOMAIN tasks]_vars

====
